---- MODULE Spec2Model ----
(***************************************************************************)
(* Model of tools/ucd-tool/ucd-tool.py of seshat-unicode: the block-size   *)
(* selector select_minimal_tst over the two-stage table builder, the       *)
(* patch loader patch_data, the grouped emission loop of __main__, and the *)
(* flat-table emitters na_table_rs, dm_map_rs and binary_props_rs.         *)
(*                                                                         *)
(* ucd.collections (CodePointRange, TwoStageTable, Missing) is imported by *)
(* the script but is not part of the source at hand; those definitions are *)
(* modelled from the design document and are marked so where they appear.  *)
(***************************************************************************)
EXTENDS Integers, Sequences, FiniteSets, TLC

VARIABLES
    \* select_minimal_tst and its callers
    pc,             \* position of the run: "call", "loop", "done"
    data,           \* Range Mapping: sequence of <<CodePointRange, value>>
    repr_size,      \* byte width of one value
    default_prop,   \* default value (None when the caller gives none)
    missing_json,   \* content of the *.missing.json file, or NoFile
    missing,        \* the Missing object handed to the builder, or NoMissing
    tables,         \* the dict `tables` of select_minimal_tst
    result,         \* the table select_minimal_tst returned
    \* the emoji loop of __main__
    emoji_data_dict,    \* make_grouped_data(...): sequence of <<prop, data>>
    emoji_i,            \* iterations of the loop done
    emoji_props_rs,     \* the routines appended to the artifact so far
    \* na_table_rs
    na_d,           \* DerivedName.json: sequence of <<key, name>>
    na_i,           \* items of na_d gone through
    na_txt,         \* the entries written into NA_MAP so far
    \* dm_map_rs
    dm_pc,          \* "idle", "dm" (first loop), "rdm" (second loop), "done"
    unicode_data,   \* UnicodeData.json: sequence of <<key, props['dm']>>
    dm_i,           \* items gone through in the current loop
    dm_map,         \* the entries written into DM_MAP
    rdm_list,       \* the list rdm_list
    rdm_map,        \* the entries written into RDM_MAP
    \* binary_props_rs
    bin_pc,         \* "idle", "loop", "done"
    bin_d,          \* PropList.json: sequence of <<property, ranges>>
    bin_i,          \* items gone through
    prev_prop,      \* the variable prev_prop
    bin_txt         \* the pieces appended to txt so far

tstVars == <<pc, data, repr_size, default_prop, missing_json, missing, tables, result>>

emojiVars == <<emoji_data_dict, emoji_i, emoji_props_rs>>

naVars == <<na_d, na_i, na_txt>>

dmVars == <<dm_pc, unicode_data, dm_i, dm_map, rdm_list, rdm_map>>

binVars == <<bin_pc, bin_d, bin_i, prev_prop, bin_txt>>

vars == <<pc, data, repr_size, default_prop, missing_json, missing, tables, result,
          emoji_data_dict, emoji_i, emoji_props_rs, na_d, na_i, na_txt,
          dm_pc, unicode_data, dm_i, dm_map, rdm_list, rdm_map,
          bin_pc, bin_d, bin_i, prev_prop, bin_txt>>

-----------------------------------------------------------------------------
(* Bounds of the model. *)

\* The code point domain is [0, DomainChunks * 512 - 1]; the real domain
\* [0, 0x10FFFF] is 2176 chunks of 512 code points.
DomainChunks == 32

\* Longest Range Mapping and longest patch file drawn as input.
MaxRanges == 2
MaxPatch == 1

\* Most properties in the emoji data file.
MaxProps == 3

\* Most entries in the name file.
MaxNames == 3

\* Most characters in the character data file.
MaxChars == 3

\* Most properties in the property list file.
MaxBinProps == 2

-----------------------------------------------------------------------------
(* Python values. *)

\* Python's None where a property value is expected.
None == "(None)"

\* missing=None, the default argument of select_minimal_tst.
NoMissing == [given |-> FALSE, entries |-> <<>>]

\* No *.missing.json file is read for the property.
NoFile == [given |-> FALSE, entries |-> <<>>]

\* tables[block_size] before the loop assigns it.
NoTable == [built |-> FALSE]

DomainSize == DomainChunks * 512
MaxCodePoint == DomainSize - 1
CodePoints == 0..MaxCodePoint

\* CodePointRange: the inclusive interval [start, end].
CodePointRange(s, e) == [start |-> s, end |-> e]

\* `cp in rng`
Contains(rng, cp) == rng.start <= cp /\ cp <= rng.end

\* property_value_aliases['bc'] as far as the run uses it: abbreviation -> long name,
\* in the order of the JSON file.
bc_aliases == << <<"L", "Left_To_Right">>, <<"R", "Right_To_Left">>,
                 <<"AL", "Arabic_Letter">>, <<"EN", "European_Number">> >>

\* find_key_by_value: the first key whose value is val, None when there is none.
find_key_by_value(d, val) ==
    LET hits == {i \in 1..Len(d) : d[i][2] = val}
    IN  IF hits = {} THEN None
        ELSE d[CHOOSE i \in hits : \A j \in hits : i <= j][1]

-----------------------------------------------------------------------------
(* TwoStageTable (ucd.collections), modelled from the design document. *)

\* The mapping with the patch merged in: later entries win on overlap.
Patched(d, m) == IF m.given THEN d \o m.entries ELSE d

\* Value of cp under a merged list: the last entry covering cp, else the default.
RECURSIVE ScanValue(_, _, _, _)
ScanValue(merged, n, dflt, cp) ==
    IF n = 0 THEN dflt
    ELSE IF Contains(merged[n][1], cp) THEN merged[n][2]
    ELSE ScanValue(merged, n - 1, dflt, cp)

NumBlocks(block_size) == (DomainSize + block_size - 1) \div block_size

\* The entries of a merged list whose range meets the code points lo..hi.
Intersecting(merged, lo, hi) ==
    SelectSeq(merged, LAMBDA e : e[1].start <= hi /\ lo <= e[1].end)

\* Block Content of block b (0-based): the entries meeting the block are scanned
\* for every code point of it, every other position takes the default, and so do
\* the positions past the domain.
BlockContent(merged, dflt, block_size, b) ==
    LET lo == b * block_size
        hits == Intersecting(merged, lo, lo + block_size - 1)
    IN  [i \in 1..block_size |->
            LET cp == lo + (i - 1)
            IN  IF cp > MaxCodePoint \/ hits = <<>> THEN dflt
                ELSE ScanValue(hits, Len(hits), dflt, cp)]

\* Faulty variant of SlotOf: the search never finds the content.
SlotOf_NeverFound(stage2, content) == 0

\* Slot of a content in Stage-2 (1-based position), 0 when it is not there.
SlotOf(stage2, content) ==
    IF \E s \in 1..Len(stage2) : stage2[s] = content
    THEN CHOOSE s \in 1..Len(stage2) : stage2[s] = content
    ELSE 0

\* One block of the deduplication: a content seen before reuses its slot, a new
\* one is appended to Stage-2.  Slot ids are 0-based.
DedupBlock(merged, dflt, block_size, b, acc) ==
    LET content == BlockContent(merged, dflt, block_size, b)
        slot == SlotOf(acc.stage2, content)
    IN  IF slot # 0
        THEN [stage1 |-> Append(acc.stage1, slot - 1), stage2 |-> acc.stage2]
        ELSE [stage1 |-> Append(acc.stage1, Len(acc.stage2)),
              stage2 |-> Append(acc.stage2, content)]

\* Deduplication of blocks lo..hi in block order, starting from acc, the tables
\* after blocks 0..lo-1 (so acc.stage1 holds lo entries).  The range is halved so
\* that the evaluation stays shallow; the order is that of the loop.
RECURSIVE Dedup(_, _, _, _, _, _)
Dedup(merged, dflt, block_size, lo, hi, acc) ==
    IF lo > hi \/ Len(acc.stage1) # lo THEN acc
    ELSE IF lo = hi THEN DedupBlock(merged, dflt, block_size, lo, acc)
    ELSE LET mid == (lo + hi) \div 2
         IN  Dedup(merged, dflt, block_size, mid + 1, hi,
                   Dedup(merged, dflt, block_size, lo, mid, acc))

\* TwoStageTable.make(prop, data, block_size, default_prop, missing)
TwoStageTable_make(d, block_size, dflt, m) ==
    LET t == Dedup(Patched(d, m), dflt, block_size, 0, NumBlocks(block_size) - 1,
                     [stage1 |-> <<>>, stage2 |-> <<>>])
    IN  [built |-> TRUE, block_size |-> block_size, default_prop |-> dflt,
         stage1 |-> t.stage1, stage2 |-> t.stage2]

\* Minimal byte width that addresses n slots.
index_width(n) == IF n <= 256 THEN 1 ELSE IF n <= 65536 THEN 2 ELSE 4

\* tst.table_bytes(repr_size)
table_bytes(tst, r) ==
    Len(tst.stage1) * index_width(Len(tst.stage2))
        + Len(tst.stage2) * tst.block_size * r

\* The two-stage dereference Stage-2[Stage-1[cp div block_size]][cp mod block_size].
Lookup(tst, cp) ==
    tst.stage2[tst.stage1[(cp \div tst.block_size) + 1] + 1][(cp % tst.block_size) + 1]

-----------------------------------------------------------------------------
(* select_minimal_tst *)

\* Keys of the dict `tables`, in insertion order.
BlockSizes == <<64, 128, 256, 512>>

\* Number of loop iterations done: the keys whose table is assigned.
Done(tbls) == Cardinality({i \in 1..Len(BlockSizes) : tbls[i].built})

\* Faulty variant of PyMin: the comparison is turned round (max for min).
RECURSIVE PyMin_Max(_, _, _, _)
PyMin_Max(seq, r, i, best) ==
    IF i > Len(seq) THEN best
    ELSE IF table_bytes(seq[i], r) > table_bytes(best, r)
         THEN PyMin_Max(seq, r, i + 1, seq[i])
         ELSE PyMin_Max(seq, r, i + 1, best)

\* Faulty variant of PyMin: an element as small as the best so far replaces it,
\* so the last minimal element is returned.
RECURSIVE PyMin_Last(_, _, _, _)
PyMin_Last(seq, r, i, best) ==
    IF i > Len(seq) THEN best
    ELSE IF table_bytes(seq[i], r) <= table_bytes(best, r)
         THEN PyMin_Last(seq, r, i + 1, seq[i])
         ELSE PyMin_Last(seq, r, i + 1, best)

\* min(iterable, key=...): the first element whose key is minimal.
RECURSIVE PyMin(_, _, _, _)
PyMin(seq, r, i, best) ==
    IF i > Len(seq) THEN best
    ELSE IF table_bytes(seq[i], r) < table_bytes(best, r)
         THEN PyMin(seq, r, i + 1, seq[i])
         ELSE PyMin(seq, r, i + 1, best)

\* select_minimal_tst(prop, data, repr_size, default_prop, missing) as a whole.
select_minimal_tst(d, r, dflt, m) ==
    LET tbls == [i \in 1..Len(BlockSizes) |->
                    TwoStageTable_make(d, BlockSizes[i], dflt, m)]
    IN  PyMin(tbls, r, 2, tbls[1])

\* patch_data: one Missing entry per item of the JSON file, the value replaced by
\* its abbreviation.
patch_data(json) ==
    [given |-> TRUE,
     entries |-> [i \in 1..Len(json) |->
                    <<json[i][1], find_key_by_value(bc_aliases, json[i][2])>>]]

-----------------------------------------------------------------------------
(* Inputs. *)

RangePoints == {0, 64, MaxCodePoint}
PatchPoints == {64, 300}
DataValues == {"R"}
PatchValues == {"Right_To_Left", "Arabic_Letter"}

RangesOver(points) ==
    {CodePointRange(s, e) : <<s, e>> \in {p \in points \X points : p[1] <= p[2]}}

\* Sorted, pairwise disjoint range lists of at most n entries.
RangeLists(points, values, n) ==
    {s \in UNION {[1..k -> RangesOver(points) \X values] : k \in 0..n} :
        \A i \in 1..(Len(s) - 1) : s[i][1].end < s[i + 1][1].start}

\* The other parts of the script are not running.
TstIdle ==
    /\ pc = "idle"
    /\ data = <<>>
    /\ repr_size = 1
    /\ default_prop = None
    /\ missing_json = NoFile
    /\ missing = NoMissing
    /\ tables = [i \in 1..Len(BlockSizes) |-> NoTable]
    /\ result = NoTable

EmojiIdle ==
    /\ emoji_data_dict = <<>>
    /\ emoji_i = 0
    /\ emoji_props_rs = <<>>

NaIdle ==
    /\ na_d = <<>>
    /\ na_i = 0
    /\ na_txt = <<>>

DmIdle ==
    /\ dm_pc = "idle"
    /\ unicode_data = <<>>
    /\ dm_i = 0
    /\ dm_map = <<>>
    /\ rdm_list = <<>>
    /\ rdm_map = <<>>

BinIdle ==
    /\ bin_pc = "idle"
    /\ bin_d = <<>>
    /\ bin_i = 0
    /\ prev_prop = ""
    /\ bin_txt = <<>>

\* Inputs of the bc run of __main__, the one run with a missing file; the value
\* widths are those of property_info.
TstInputs(repr_sizes) ==
    /\ pc = "call"
    /\ data \in RangeLists(RangePoints, DataValues, MaxRanges)
    /\ repr_size \in repr_sizes
    /\ default_prop \in {"L"}
    /\ missing_json \in {NoFile} \cup
           {[given |-> TRUE, entries |-> e] :
                e \in RangeLists(PatchPoints, PatchValues, MaxPatch)}
    /\ missing = NoMissing
    /\ tables = [i \in 1..Len(BlockSizes) |-> NoTable]
    /\ result = NoTable
    /\ EmojiIdle
    /\ NaIdle
    /\ DmIdle
    /\ BinIdle

\* __main__: bc_missing = patch_data(...) when the property has a missing file,
\* then the call of select_minimal_tst.
Call ==
    /\ pc = "call"
    /\ missing' = IF missing_json.given THEN patch_data(missing_json.entries)
                  ELSE NoMissing
    /\ pc' = "loop"
    /\ UNCHANGED <<data, repr_size, default_prop, missing_json, tables, result>>
    /\ UNCHANGED <<emojiVars, naVars, dmVars, binVars>>

\* Faulty variant of MakeTable: default_prop is not handed to the builder.
MakeTable_NoDefault ==
    /\ pc = "loop"
    /\ Done(tables) < Len(BlockSizes)
    /\ LET i == Done(tables) + 1
           tst == TwoStageTable_make(data, BlockSizes[i], None, missing)
       IN  tables' = [tables EXCEPT ![i] = tst]
    /\ UNCHANGED <<pc, data, repr_size, default_prop, missing_json, missing, result>>
    /\ UNCHANGED <<emojiVars, naVars, dmVars, binVars>>

\* Faulty variant of MakeTable: missing is not handed to the builder.
MakeTable_NoMissing ==
    /\ pc = "loop"
    /\ Done(tables) < Len(BlockSizes)
    /\ LET i == Done(tables) + 1
           tst == TwoStageTable_make(data, BlockSizes[i], default_prop, NoMissing)
       IN  tables' = [tables EXCEPT ![i] = tst]
    /\ UNCHANGED <<pc, data, repr_size, default_prop, missing_json, missing, result>>
    /\ UNCHANGED <<emojiVars, naVars, dmVars, binVars>>

\* One iteration of `for block_size in tables.keys()`.
MakeTable ==
    /\ pc = "loop"
    /\ Done(tables) < Len(BlockSizes)
    /\ LET i == Done(tables) + 1
           tst == TwoStageTable_make(data, BlockSizes[i], default_prop, missing)
       IN  tables' = [tables EXCEPT ![i] = tst]
    /\ UNCHANGED <<pc, data, repr_size, default_prop, missing_json, missing, result>>
    /\ UNCHANGED <<emojiVars, naVars, dmVars, binVars>>

\* return min(tables.values(), key=lambda x: x.table_bytes(repr_size))
ReturnMin ==
    /\ pc = "loop"
    /\ Done(tables) = Len(BlockSizes)
    /\ result' = PyMin(tables, repr_size, 2, tables[1])
    /\ pc' = "done"
    /\ UNCHANGED <<data, repr_size, default_prop, missing_json, missing, tables>>
    /\ UNCHANGED <<emojiVars, naVars, dmVars, binVars>>

TstNext == Call \/ MakeTable \/ ReturnMin

TstInit == TstInputs({1, 2})

\* The builder never reads repr_size; the properties of the tables built are
\* checked with the value width of the bc property.
BuildInit == TstInputs({1})

SpecTst == TstInit /\ [][TstNext]_vars

SpecBuild == BuildInit /\ [][TstNext]_vars

-----------------------------------------------------------------------------
(* The emoji properties: grouped emission into one artifact. *)

\* property_aliases as far as the emoji data and the property list use it:
\* alias -> long name.
property_aliases == << <<"Emoji", "Emoji">>, <<"EPres", "Emoji_Presentation">>,
                       <<"EMod", "Emoji_Modifier">>,
                       <<"ExtPict", "Extended_Pictographic">>,
                       <<"WSpace", "White_Space">>, <<"Dash", "Dash">>,
                       <<"Hyphen", "Hyphen">> >>

\* to_snake_case: 'ExtPict' is special, every other alias is lower-cased.
to_snake_case(val) ==
    CASE val = "ExtPict" -> "ext_pict"
      [] val = "Emoji" -> "emoji"
      [] val = "EPres" -> "epres"
      [] val = "EMod" -> "emod"
      [] val = "WSpace" -> "wspace"
      [] val = "Dash" -> "dash"
      [] val = "Hyphen" -> "hyphen"

\* The ranges of emoji/emoji-data.json for a property, as make_grouped_data
\* returns them: sorted, every value "true".
EmojiRanges(prop) ==
    CASE prop = "Emoji" -> << <<CodePointRange(35, 35), "true">>,
                              <<CodePointRange(48, 57), "true">> >>
      [] prop = "Emoji_Presentation" -> << <<CodePointRange(8986, 8987), "true">> >>
      [] prop = "Emoji_Modifier" -> <<>>
      [] prop = "Extended_Pictographic" -> << <<CodePointRange(169, 169), "true">>,
                                              <<CodePointRange(174, 174), "true">> >>

EmojiProps == {"Emoji", "Emoji_Presentation", "Emoji_Modifier", "Extended_Pictographic"}

\* The data files hold each property once, in any order.
EmojiDicts ==
    {[i \in 1..Len(ps) |-> <<ps[i], EmojiRanges(ps[i])>>] :
        ps \in {q \in UNION {[1..k -> EmojiProps] : k \in 0..MaxProps} :
                   \A i, j \in 1..Len(q) : i # j => q[i] # q[j]}}

EmojiInit ==
    /\ emoji_data_dict \in EmojiDicts
    /\ emoji_i = 0
    /\ emoji_props_rs = <<>>
    /\ TstIdle
    /\ NaIdle
    /\ DmIdle
    /\ BinIdle

\* tst.to_seshat(use=use, prefix=True, boolean=True): the routine emitted for a
\* table, with the flags it is emitted under.
to_seshat(tst, prop, use, prefix, boolean) ==
    [prop |-> prop, use |-> use, prefix |-> prefix, boolean |-> boolean, tst |-> tst]

\* Faulty variant of EmojiStep: the index is compared with 1, not with 0.
EmojiStep_OffByOne ==
    /\ emoji_i < Len(emoji_data_dict)
    /\ LET i == emoji_i
           prop == emoji_data_dict[i + 1][1]
           use == (i = 1)
           prop_alias == to_snake_case(find_key_by_value(property_aliases, prop))
           tst == select_minimal_tst(emoji_data_dict[i + 1][2], 1, "false", NoMissing)
       IN  emoji_props_rs' =
               Append(emoji_props_rs, to_seshat(tst, prop_alias, use, TRUE, TRUE))
    /\ emoji_i' = emoji_i + 1
    /\ UNCHANGED emoji_data_dict
    /\ UNCHANGED <<tstVars, naVars, dmVars, binVars>>

\* One iteration of `for i, prop in enumerate(emoji_data_dict.keys())`.
EmojiStep ==
    /\ emoji_i < Len(emoji_data_dict)
    /\ LET i == emoji_i
           prop == emoji_data_dict[i + 1][1]
           use == (i = 0)
           prop_alias == to_snake_case(find_key_by_value(property_aliases, prop))
           tst == select_minimal_tst(emoji_data_dict[i + 1][2], 1, "false", NoMissing)
       IN  emoji_props_rs' =
               Append(emoji_props_rs, to_seshat(tst, prop_alias, use, TRUE, TRUE))
    /\ emoji_i' = emoji_i + 1
    /\ UNCHANGED emoji_data_dict
    /\ UNCHANGED <<tstVars, naVars, dmVars, binVars>>

EmojiNext == EmojiStep

SpecEmoji == EmojiInit /\ [][EmojiNext]_vars

\* C6 (grouped emission): of the routines emitted one after another into the
\* artifact of a group, exactly one is marked primary (use = TRUE), and it is the
\* first one emitted; every later routine is emitted with use = FALSE.
C6_PrimaryFirst ==
    emoji_props_rs # <<>> =>
        /\ Cardinality({j \in 1..Len(emoji_props_rs) : emoji_props_rs[j].use}) = 1
        /\ emoji_props_rs[1].use
        /\ \A j \in 2..Len(emoji_props_rs) : ~emoji_props_rs[j].use

\* A group of three properties is emitted to the end.
C6_Witness ==
    /\ Len(emoji_data_dict) >= 3
    /\ emoji_i = Len(emoji_data_dict)
    /\ Len(emoji_props_rs) = Len(emoji_data_dict)

-----------------------------------------------------------------------------
(* na_table_rs: the flat name table. *)

\* Unicode Table 4-8: the ranges whose names derive from the code point.
derived_na_ranges == <<
    CodePointRange(\hAC00, \hD7A3),      \* HANGUL SYLLABLE
    CodePointRange(\h3400, \h4DBF),      \* CJK UNIFIED IDEOGRAPH-
    CodePointRange(\h4E00, \h9FFF),
    CodePointRange(\h20000, \h2A6DF),
    CodePointRange(\h2A700, \h2B739),
    CodePointRange(\h2B740, \h2B81D),
    CodePointRange(\h2B820, \h2CEA1),
    CodePointRange(\h2CEB0, \h2EBE0),
    CodePointRange(\h2EBF0, \h2EE5D),
    CodePointRange(\h30000, \h3134A),
    CodePointRange(\h31350, \h323AF),
    CodePointRange(\h17000, \h187F7),    \* TANGUT IDEOGRAPH-
    CodePointRange(\h18D00, \h18D08),
    CodePointRange(\h18B00, \h18CD5),    \* KHITAN SMALL SCRIPT CHARACTER-
    CodePointRange(\h1B170, \h1B2FB),    \* NUSHU CHARACTER-
    CodePointRange(\hF900, \hFA6D),      \* CJK COMPATIBILITY IDEOGRAPH-
    CodePointRange(\hFA70, \hFAD9),
    CodePointRange(\h2F800, \h2FA1D) >>

\* Items the name file may hold: the key is the range its text denotes (the text
\* itself is read by CodePointRange.parse), the value is the name.
NaItems == {
    <<CodePointRange(\h0041, \h0041), "LATIN CAPITAL LETTER A">>,
    <<CodePointRange(\h0042, \h0042), "LATIN CAPITAL LETTER B">>,
    <<CodePointRange(\h33FF, \h33FF), "SQUARE GAL">>,
    <<CodePointRange(\h3400, \h4DBF), "CJK UNIFIED IDEOGRAPH-*">>,
    <<CodePointRange(\h4DC0, \h4DC0), "HEXAGRAM FOR THE CREATIVE HEAVEN">>,
    <<CodePointRange(\hAC00, \hAC00), "HANGUL SYLLABLE GA">>,
    <<CodePointRange(\hD7A3, \hD7A3), "HANGUL SYLLABLE HIH">>,
    <<CodePointRange(\h2FA1D, \h2FA1D), "CJK COMPATIBILITY IDEOGRAPH-2FA1D">>,
    <<CodePointRange(\h2FA1E, \h2FA1E), "(UNASSIGNED)">> }

\* A JSON object holds each key once; the items come in the order of the file.
NaFiles ==
    {d \in UNION {[1..k -> NaItems] : k \in 0..MaxNames} :
        \A i, j \in 1..Len(d) : i # j => d[i][1] # d[j][1]}

NaInit ==
    /\ na_d \in NaFiles
    /\ na_i = 0
    /\ na_txt = <<>>
    /\ TstIdle
    /\ EmojiIdle
    /\ DmIdle
    /\ BinIdle

\* Faulty variant of na_ignore: every range overwrites ignore, so only the last
\* range decides.
RECURSIVE na_ignore_Overwritten(_, _, _)
na_ignore_Overwritten(cp, n, ignore) ==
    IF n > Len(derived_na_ranges) THEN ignore
    ELSE na_ignore_Overwritten(cp, n + 1, Contains(derived_na_ranges[n], cp))

\* The inner loop `for rng in derived_na_ranges`: ignore is set once cp is in a
\* range and is never reset.
RECURSIVE na_ignore(_, _, _)
na_ignore(cp, n, ignore) ==
    IF n > Len(derived_na_ranges) THEN ignore
    ELSE na_ignore(cp, n + 1, IF Contains(derived_na_ranges[n], cp) THEN TRUE ELSE ignore)

\* One iteration of `for k, name in d.items()`.
NaStep ==
    /\ na_i < Len(na_d)
    /\ LET cp == na_d[na_i + 1][1].start
           name == na_d[na_i + 1][2]
           ignore == na_ignore(cp, 1, FALSE)
       IN  na_txt' = IF ignore = FALSE THEN Append(na_txt, <<cp, name>>) ELSE na_txt
    /\ na_i' = na_i + 1
    /\ UNCHANGED na_d
    /\ UNCHANGED <<tstVars, emojiVars, dmVars, binVars>>

NaNext == NaStep

SpecNa == NaInit /\ [][NaNext]_vars

InDerived(cp) == \E n \in 1..Len(derived_na_ranges) : Contains(derived_na_ranges[n], cp)

\* The <<code point, name>> pair an item of the file stands for.
NaPair(item) == <<item[1].start, item[2]>>

\* C7 (name-table exclusion): no entry written into NA_MAP has a code point
\* inside one of the derived_na_ranges, and when the file is gone through, every
\* item of it whose code point is outside all derived_na_ranges is written
\* exactly once.
C7_Exclusion ==
    /\ \A j \in 1..Len(na_txt) : ~InDerived(na_txt[j][1])
    /\ na_i = Len(na_d) =>
           \A i \in 1..Len(na_d) :
               ~InDerived(na_d[i][1].start) =>
                   Cardinality({j \in 1..Len(na_txt) : na_txt[j] = NaPair(na_d[i])})
                       = Cardinality({h \in 1..Len(na_d) : NaPair(na_d[h]) = NaPair(na_d[i])})

\* A file with an item inside a derived range and one outside is gone through.
C7_Witness ==
    /\ na_i = Len(na_d)
    /\ \E i, h \in 1..Len(na_d) :
           InDerived(na_d[i][1].start) /\ ~InDerived(na_d[h][1].start)
    /\ na_txt # <<>>

\* C9 (name-table ordering): the <<code point, name>> pairs written into NA_MAP
\* are in ascending order of code point, for any name file.
C9_Sorted ==
    \A j \in 1..(Len(na_txt) - 1) : na_txt[j][1] < na_txt[j + 1][1]

-----------------------------------------------------------------------------
(* Strings.  A Python str is modelled as the sequence of its characters; the   *)
(* text of a file is a sequence of one-character strings, and a str built by   *)
(* chr() is the sequence of its code points.                                   *)

HexDigits == <<"0", "1", "2", "3", "4", "5", "6", "7",
               "8", "9", "A", "B", "C", "D", "E", "F">>

HexValue(c) == (CHOOSE d \in 1..16 : HexDigits[d] = c) - 1

\* int(x, 16)
RECURSIVE int16(_, _)
int16(x, acc) ==
    IF x = <<>> THEN acc ELSE int16(Tail(x), acc * 16 + HexValue(Head(x)))

\* '{:X}'.format(n)
RECURSIVE format_X(_)
format_X(n) ==
    IF n < 16 THEN <<HexDigits[n + 1]>>
    ELSE Append(format_X(n \div 16), HexDigits[(n % 16) + 1])

\* '{:04X}'.format(n): at least four digits, padded with zeros.
format_04X(n) ==
    LET digits == format_X(n)
    IN  [i \in 1..(4 - Len(digits)) |-> "0"] \o digits

\* s.split(' '): the pieces between the spaces, empty pieces included.
RECURSIVE split(_, _, _)
split(s, piece, pieces) ==
    IF s = <<>> THEN Append(pieces, piece)
    ELSE IF Head(s) = " " THEN split(Tail(s), <<>>, Append(pieces, piece))
    ELSE split(Tail(s), Append(piece, Head(s)), pieces)

\* s.startswith('<')
startswith_lt(s) == s # <<>> /\ s[1] = "<"

\* re.sub('<.+> ', '', s) on a string with one tag: the match starts at the first
\* '<' and, being greedy, ends at the last '> ' that leaves it a character between.
re_sub_tag(s) ==
    LET starts == {a \in 1..Len(s) : s[a] = "<"}
    IN  IF starts = {} THEN s
        ELSE LET a == CHOOSE x \in starts : \A y \in starts : x <= y
                 ends == {b \in (a + 2)..(Len(s) - 1) : s[b] = ">" /\ s[b + 1] = " "}
             IN  IF ends = {} THEN s
                 ELSE LET b == CHOOSE x \in ends : \A y \in ends : y <= x
                      IN  SubSeq(s, 1, a - 1) \o SubSeq(s, b + 2, Len(s))

\* Python's a < b on two str: by code point, a proper prefix first.
RECURSIVE str_lt(_, _)
str_lt(a, b) ==
    IF b = <<>> THEN FALSE
    ELSE IF a = <<>> THEN TRUE
    ELSE IF Head(a) # Head(b) THEN Head(a) < Head(b)
    ELSE str_lt(Tail(a), Tail(b))

\* str_as_escaped: '\u{XXXX}' for every character of s.
RECURSIVE str_as_escaped(_)
str_as_escaped(s) ==
    IF s = <<>> THEN <<>>
    ELSE <<"\\", "u", "{">> \o format_04X(Head(s)) \o <<"}">> \o str_as_escaped(Tail(s))

\* sorted(lst, key=lambda x: x[0]): stable, so an element goes after the elements
\* that are not greater than it.
RECURSIVE insert_sorted(_, _)
insert_sorted(lst, x) ==
    IF lst = <<>> THEN <<x>>
    ELSE IF str_lt(x[1], Head(lst)[1]) THEN <<x>> \o lst
    ELSE <<Head(lst)>> \o insert_sorted(Tail(lst), x)

RECURSIVE sorted_by_first(_, _)
sorted_by_first(lst, acc) ==
    IF lst = <<>> THEN acc
    ELSE sorted_by_first(Tail(lst), insert_sorted(acc, Head(lst)))

-----------------------------------------------------------------------------
(* dm_map_rs: the decomposition tables. *)

\* Items the character data file may hold: <<key, props['dm']>>.
DmItems == {
    \* 00C0: 0041 0300
    << <<"0","0","C","0">>, <<"0","0","4","1"," ","0","3","0","0">> >>,
    \* 00C5: 0041 030A
    << <<"0","0","C","5">>, <<"0","0","4","1"," ","0","3","0","A">> >>,
    \* 212B: 00C5
    << <<"2","1","2","B">>, <<"0","0","C","5">> >>,
    \* 00A8: <compat> 0020 0308
    << <<"0","0","A","8">>,
       <<"<","c","o","m","p","a","t",">"," ","0","0","2","0"," ","0","3","0","8">> >>,
    \* 0041: no decomposition
    << <<"0","0","4","1">>, <<>> >>,
    \* F907 and F908: 9F9C
    << <<"F","9","0","7">>, <<"9","F","9","C">> >>,
    << <<"F","9","0","8">>, <<"9","F","9","C">> >>,
    \* 1D15E: 1D157 1D165
    << <<"1","D","1","5","E">>,
       <<"1","D","1","5","7"," ","1","D","1","6","5">> >> }

\* A JSON object holds each key once; the items come in the order of the file.
DmFiles ==
    {d \in UNION {[1..k -> DmItems] : k \in 0..MaxChars} :
        \A i, j \in 1..Len(d) : i # j => d[i][1] # d[j][1]}

DmInit ==
    /\ dm_pc = "dm"
    /\ unicode_data \in DmFiles
    /\ dm_i = 0
    /\ dm_map = <<>>
    /\ rdm_list = <<>>
    /\ rdm_map = <<>>
    /\ TstIdle
    /\ EmojiIdle
    /\ NaIdle
    /\ BinIdle

\* '\\u{{{}}}'.format(code) for every code of the decomposition, concatenated.
RECURSIVE dm_escaped(_)
dm_escaped(codes) ==
    IF codes = <<>> THEN <<>>
    ELSE <<"\\", "u", "{">> \o Head(codes) \o <<"}">> \o dm_escaped(Tail(codes))

\* One iteration of the first loop: the DM_MAP entry of a character, tag removed.
DmStep ==
    /\ dm_pc = "dm"
    /\ dm_i < Len(unicode_data)
    /\ LET k == unicode_data[dm_i + 1][1]
           dm_raw == unicode_data[dm_i + 1][2]
           cp_start == int16(k, 0)
           stripped == IF startswith_lt(dm_raw) THEN re_sub_tag(dm_raw) ELSE dm_raw
           dm_str == dm_escaped(split(stripped, <<>>, <<>>))
       IN  dm_map' = IF dm_raw = <<>> THEN dm_map
                     ELSE Append(dm_map, <<format_04X(cp_start), dm_str>>)
    /\ dm_i' = dm_i + 1
    /\ UNCHANGED <<dm_pc, unicode_data, rdm_list, rdm_map>>
    /\ UNCHANGED <<tstVars, emojiVars, naVars, binVars>>

\* The first loop is over: DM_MAP is closed and the second loop begins.
DmClose ==
    /\ dm_pc = "dm"
    /\ dm_i = Len(unicode_data)
    /\ dm_pc' = "rdm"
    /\ dm_i' = 0
    /\ UNCHANGED <<unicode_data, dm_map, rdm_list, rdm_map>>
    /\ UNCHANGED <<tstVars, emojiVars, naVars, binVars>>

\* chr(int(x, 16)) for every code of a decomposition.
chr_codes(codes) == [i \in 1..Len(codes) |-> int16(codes[i], 0)]

\* Faulty variant of rdm_append: a tagged decomposition is not skipped, its tag is
\* removed as in the first loop.
rdm_append_Tagged(lst, item) ==
    LET k == item[1]
        dm_raw == item[2]
        stripped == IF startswith_lt(dm_raw) THEN re_sub_tag(dm_raw) ELSE dm_raw
    IN  IF dm_raw = <<>> THEN lst
        ELSE Append(lst, <<chr_codes(split(stripped, <<>>, <<>>)), k>>)

\* The body of the second loop for one item, applied to rdm_list.
rdm_append(lst, item) ==
    LET k == item[1]
        dm_raw == item[2]
    IN  IF dm_raw = <<>> THEN lst
        ELSE IF startswith_lt(dm_raw) THEN lst
        ELSE Append(lst, <<chr_codes(split(dm_raw, <<>>, <<>>)), k>>)

\* One iteration of the second loop.
RdmStep ==
    /\ dm_pc = "rdm"
    /\ dm_i < Len(unicode_data)
    /\ rdm_list' = rdm_append(rdm_list, unicode_data[dm_i + 1])
    /\ dm_i' = dm_i + 1
    /\ UNCHANGED <<dm_pc, unicode_data, dm_map, rdm_map>>
    /\ UNCHANGED <<tstVars, emojiVars, naVars, binVars>>

\* rdm_list is sorted and written into RDM_MAP, one entry per pair.
RdmEmit ==
    /\ dm_pc = "rdm"
    /\ dm_i = Len(unicode_data)
    /\ LET lst == sorted_by_first(rdm_list, <<>>)
       IN  /\ rdm_list' = lst
           /\ rdm_map' = [j \in 1..Len(lst) |->
                             <<str_as_escaped(lst[j][1]), <<"0", "x">> \o lst[j][2]>>]
    /\ dm_pc' = "done"
    /\ UNCHANGED <<unicode_data, dm_i, dm_map>>
    /\ UNCHANGED <<tstVars, emojiVars, naVars, binVars>>

DmNext == DmStep \/ DmClose \/ RdmStep \/ RdmEmit

SpecDm == DmInit /\ [][DmNext]_vars

\* The characters of the file with a decomposition that is neither empty nor
\* tagged (a tag starts with '<').
Canonical == {i \in 1..Len(unicode_data) :
                 unicode_data[i][2] # <<>> /\ unicode_data[i][2][1] # "<"}

\* The decomposition string of character i of the file: the code points its
\* props['dm'] lists.
Decomposition(i) ==
    LET codes == split(unicode_data[i][2], <<>>, <<>>)
    IN  [n \in 1..Len(codes) |-> int16(codes[n], 0)]

\* a <= b for two strings: equal, or a is a proper prefix of b, or a has the
\* smaller code point at the first place where they differ.
LexLeq(a, b) ==
    \/ a = b
    \/ \E n \in 1..Len(b) :
           /\ \A m \in 1..(n - 1) : m <= Len(a) /\ a[m] = b[m]
           /\ (n > Len(a) \/ a[n] < b[n])
           /\ n <= Len(a) + 1

\* The character of the file an RDM_MAP entry is for.
EntryOf(j) == {i \in 1..Len(unicode_data) : rdm_map[j][2] = <<"0", "x">> \o unicode_data[i][1]}

\* C8 (reverse decomposition table): RDM_MAP holds exactly one entry for every
\* character of the file whose decomposition is neither empty nor tagged as a
\* compatibility decomposition, no entry for any other character, the entry
\* holds the escaped decomposition string of its character, and the entries are
\* in non-decreasing order of decomposition string.
C8_ReverseTable ==
    dm_pc = "done" =>
        /\ \A i \in Canonical : Cardinality({j \in 1..Len(rdm_map) : i \in EntryOf(j)}) = 1
        /\ \A j \in 1..Len(rdm_map) :
               /\ EntryOf(j) # {}
               /\ EntryOf(j) \subseteq Canonical
               /\ \A i \in EntryOf(j) : rdm_map[j][1] = str_as_escaped(Decomposition(i))
        /\ \A j \in 1..(Len(rdm_map) - 1) :
               \A i \in EntryOf(j), h \in EntryOf(j + 1) :
                   LexLeq(Decomposition(i), Decomposition(h))

\* A file with a tagged decomposition and with two canonical ones that come in
\* descending order is written out.
C8_Witness ==
    /\ dm_pc = "done"
    /\ \E i \in 1..Len(unicode_data) : startswith_lt(unicode_data[i][2])
    /\ \E i, h \in Canonical :
           i < h /\ ~LexLeq(Decomposition(i), Decomposition(h))
    /\ Len(rdm_map) >= 2

-----------------------------------------------------------------------------
(* binary_props_rs: one routine per binary property. *)

BinProps == {"White_Space", "Dash", "Hyphen"}

\* Range lists a property of the file may have (the text of a range is read by
\* CodePointRange.parse).
BinRangeLists == {
    <<>>,
    << CodePointRange(\h0009, \h000D) >>,
    << CodePointRange(\h002D, \h002D), CodePointRange(\h2010, \h2015) >> }

\* A JSON object holds each key once; the items come in the order of the file.
BinFiles ==
    {d \in UNION {[1..k -> BinProps \X BinRangeLists] : k \in 0..MaxBinProps} :
        \A i, j \in 1..Len(d) : i # j => d[i][1] # d[j][1]}

BinInit ==
    /\ bin_pc = "loop"
    /\ bin_d \in BinFiles
    /\ bin_i = 0
    /\ prev_prop = ""
    /\ bin_txt = <<>>
    /\ TstIdle
    /\ EmojiIdle
    /\ NaIdle
    /\ DmIdle

\* The pieces of the emitted text.
Closing == [kind |-> "close"]
Opening(fn_name) == [kind |-> "open", fn_name |-> fn_name]
RangeTest(r) == [kind |-> "test", start |-> r.start, end |-> r.end]

\* The loop over property_aliases: the snake case of the last alias whose long
\* name is k, '' when there is none.
fn_name_of(k) ==
    LET hits == {i \in 1..Len(property_aliases) : property_aliases[i][2] = k}
    IN  IF hits = {} THEN ""
        ELSE to_snake_case(property_aliases[CHOOSE i \in hits : \A j \in hits : j <= i][1])

\* One iteration of `for k, ranges in d.items()`.
BinStep ==
    /\ bin_pc = "loop"
    /\ bin_i < Len(bin_d)
    /\ LET k == bin_d[bin_i + 1][1]
           ranges == bin_d[bin_i + 1][2]
           closing == IF prev_prop # k /\ prev_prop # "" THEN <<Closing>> ELSE <<>>
           opening == IF prev_prop # k THEN <<Opening(fn_name_of(k))>> ELSE <<>>
           tests == [n \in 1..Len(ranges) |-> RangeTest(ranges[n])]
       IN  /\ bin_txt' = bin_txt \o closing \o opening \o tests
           /\ prev_prop' = k
    /\ bin_i' = bin_i + 1
    /\ UNCHANGED <<bin_pc, bin_d>>
    /\ UNCHANGED <<tstVars, emojiVars, naVars, dmVars>>

\* After the loop: the closing of the last routine, and the return.
BinReturn ==
    /\ bin_pc = "loop"
    /\ bin_i = Len(bin_d)
    /\ bin_txt' = Append(bin_txt, Closing)
    /\ bin_pc' = "done"
    /\ UNCHANGED <<bin_d, bin_i, prev_prop>>
    /\ UNCHANGED <<tstVars, emojiVars, naVars, dmVars>>

BinNext == BinStep \/ BinReturn

SpecBin == BinInit /\ [][BinNext]_vars

\* The number of pieces of a kind among the first n pieces of the text.
Count(kind, n) == Cardinality({j \in 1..n : bin_txt[j].kind = kind})

\* The text of one property: its opening, its range tests, its closing.
RoutineText(item) ==
    <<Opening(fn_name_of(item[1]))>>
        \o [n \in 1..Len(item[2]) |-> RangeTest(item[2][n])]
        \o <<Closing>>

RECURSIVE RoutinesText(_)
RoutinesText(d) ==
    IF d = <<>> THEN <<>> ELSE RoutineText(Head(d)) \o RoutinesText(Tail(d))

\* C10 (balanced emission): for any property list, the empty one included, no
\* closing is emitted before its opening, and the text returned is, for every
\* property in the order of the file, one opening, the property's range tests
\* and one closing, so that it holds as many closings as openings.
C10_Balanced ==
    /\ \A n \in 0..Len(bin_txt) : Count("close", n) <= Count("open", n)
    /\ bin_pc = "done" =>
           /\ bin_txt = RoutinesText(bin_d)
           /\ Count("close", Len(bin_txt)) = Count("open", Len(bin_txt))

-----------------------------------------------------------------------------
(* Properties of select_minimal_tst and of the tables it builds. *)

\* Whether some entry of a range list covers cp, and the value of the entry that
\* does (the ranges of one list are disjoint).
Covered(entries, cp) == \E i \in 1..Len(entries) : Contains(entries[i][1], cp)
ValueIn(entries, cp) ==
    entries[CHOOSE i \in 1..Len(entries) : Contains(entries[i][1], cp)][2]

InPatch(cp) == missing.given /\ Covered(missing.entries, cp)
InData(cp) == Covered(data, cp)
PatchValue(cp) == ValueIn(missing.entries, cp)
DataValue(cp) == ValueIn(data, cp)

\* What the patched Range Mapping assigns to cp, the default where it assigns nothing.
Assigned(cp) ==
    IF InPatch(cp) THEN PatchValue(cp)
    ELSE IF InData(cp) THEN DataValue(cp)
    ELSE default_prop

BuiltTables == {i \in 1..Len(BlockSizes) : tables[i].built}

\* The table the latest loop iteration assigned.  An iteration assigns one entry
\* of `tables` and leaves the others as they are, so a property of the latest
\* table in every state is a property of every table built.
LatestTables ==
    IF pc = "loop" /\ Done(tables) > 0 THEN {Done(tables)} ELSE {}

\* C1 (coverage completeness): for every candidate block size, taken on its own,
\* and every code point cp of the domain, the two-stage dereference
\* Stage-2[Stage-1[cp div block_size]][cp mod block_size] on the table built for
\* that block size is the value the patched Range Mapping assigns to cp, and the
\* default value where no range covers cp.
C1_CoverageComplete ==
    LET expected == [cp \in CodePoints |-> Assigned(cp)]
    IN  \A i \in LatestTables :
            /\ tables[i].block_size = BlockSizes[i]
            /\ \A cp \in CodePoints : Lookup(tables[i], cp) = expected[cp]

ProbePoints == {0, 1, 64, 65, 300, MaxCodePoint}

\* The last of the four tables is built from a mapping that covers some code
\* point, leaves another one to the default and has a third one patched.
C1_Witness ==
    /\ LatestTables = {Len(BlockSizes)}
    /\ \E a, b, c \in ProbePoints :
            /\ InData(a) /\ ~InPatch(a)
            /\ ~InData(b) /\ ~InPatch(b)
            /\ InPatch(c)

\* C2 (minimality): the table select_minimal_tst returns is one of the tables
\* built for the candidate block sizes 64, 128, 256, 512, and its
\* table_bytes(repr_size) is at most that of every candidate table of the call.
C2_Minimal ==
    pc = "done" =>
        /\ \E i \in 1..Len(BlockSizes) :
               result = tables[i] /\ result.block_size = BlockSizes[i]
        /\ \A i \in 1..Len(BlockSizes) :
               table_bytes(result, repr_size) <= table_bytes(tables[i], repr_size)

\* A call returned a table that is not the first candidate, and a candidate costs
\* strictly more than it.
C2_Witness ==
    /\ pc = "done"
    /\ result.block_size # BlockSizes[1]
    /\ \E i \in 1..Len(BlockSizes) :
           table_bytes(result, repr_size) < table_bytes(tables[i], repr_size)

\* C3 (tie-break): when several candidate block sizes give tables of the same
\* minimal table_bytes(repr_size), the table returned is the one built with the
\* smallest of those block sizes.
C3_TieBreak ==
    pc = "done" =>
        \A i \in 1..Len(BlockSizes) :
            table_bytes(tables[i], repr_size) = table_bytes(result, repr_size)
                => result.block_size <= tables[i].block_size

\* A call where two candidates tie at the minimum.
C3_Witness ==
    /\ pc = "done"
    /\ \E i \in 1..Len(BlockSizes) :
           /\ tables[i].block_size # result.block_size
           /\ table_bytes(tables[i], repr_size) = table_bytes(result, repr_size)

\* Block Content of block b (0-based) for a block size, from the patched mapping.
ExpectedContent(block_size, b) ==
    [i \in 1..block_size |->
        LET cp == b * block_size + (i - 1)
        IN  IF cp > MaxCodePoint THEN default_prop ELSE Assigned(cp)]

\* C4 (dedup correctness): in every table built, Stage-1 has one entry per block,
\* any two blocks with pointwise identical Block Content hold the same slot id,
\* slot ids are dense integers given in first-seen block order (a block holds a
\* slot id met before, or the next unused one), and the number of Stage-2 slots is
\* the number of slot ids in use and at most the number of blocks.
C4_Dedup ==
    \A i \in LatestTables :
        LET t == tables[i]
            n == NumBlocks(BlockSizes[i])
            pairs == {<<ExpectedContent(BlockSizes[i], b), t.stage1[b + 1]>> : b \in 0..(n - 1)}
        IN  /\ Len(t.stage1) = n
            /\ \A p, q \in pairs : p[1] = q[1] => p[2] = q[2]
            /\ \A b \in 1..n :
                   LET earlier == {t.stage1[c] : c \in 1..(b - 1)}
                   IN  t.stage1[b] \in earlier \cup {Cardinality(earlier)}
            /\ Len(t.stage2) = Cardinality({t.stage1[b] : b \in 1..n})
            /\ Len(t.stage2) <= n

\* A table with at least three distinct blocks and fewer slots than blocks.
C4_Witness ==
    \E i \in LatestTables :
        /\ Len(tables[i].stage2) >= 3
        /\ Len(tables[i].stage2) < Len(tables[i].stage1)

\* C5 (patch precedence): on every table built, a code point covered both by a
\* range of the Range Mapping and by a range of the Missing object, with
\* differing values, looks up to the value of the Missing object; a code point
\* no range of the Missing object covers looks up to what the Range Mapping and
\* the default give it without the patch.
C5_PatchPrecedence ==
    \A i \in LatestTables :
        \A cp \in CodePoints :
            IF InPatch(cp)
            THEN (InData(cp) /\ PatchValue(cp) # DataValue(cp))
                     => Lookup(tables[i], cp) = PatchValue(cp)
            ELSE Lookup(tables[i], cp) =
                     (IF InData(cp) THEN DataValue(cp) ELSE default_prop)

\* A table built from a mapping and a patch that give one code point two
\* different values.
C5_Witness ==
    /\ LatestTables # {}
    /\ \E cp \in ProbePoints :
           InPatch(cp) /\ InData(cp) /\ PatchValue(cp) # DataValue(cp)

====
